---- MODULE Spec2Model ----
(***************************************************************************)
(* Model of src/src/data_processor.py: one RideDataProcessor session over  *)
(* the file found at its csv_path.                                         *)
(*                                                                         *)
(* A source file is a header (the set of required column names present in  *)
(* it) and a sequence of rows of raw cell text; ride_id, pickup_zone and   *)
(* vehicle_type cells are text that read_csv keeps as it is.  Of the ten   *)
(* required columns the                                                    *)
(* model carries the cells of ride_id, timestamp, pickup_zone,             *)
(* vehicle_type, fare and completed.  distance_km, wait_time_minutes and   *)
(* surge_multiplier go through the same to_numeric / mean path as fare,    *)
(* and dropoff_zone is never read after the header check, so their cells   *)
(* are not carried; their names are still part of the header check.        *)
(*                                                                         *)
(* Floating point results are kept as exact fractions [num, den]; den = 0  *)
(* encodes the two special floats a division by zero produces (NaN, inf).  *)
(***************************************************************************)
EXTENDS Integers, Sequences, FiniteSets, TLC

VARIABLES source, df, ret, saved

vars == <<source, df, ret, saved>>

\* Largest number of data rows of a source file.
MaxRows == 3

----------------------------------------------------------------------------
\* Missing values.

\* An empty CSV cell; pandas reads it as NaN.  Also NaN in a text column.
NA == ""
\* NaN / NaT in a numeric or datetime column of the data frame.
NaN == -1
\* self.df before any load, and a data frame of the given rows.
None == [none |-> TRUE, rows |-> <<>>]
Frame(rows) == [none |-> FALSE, rows |-> rows]

----------------------------------------------------------------------------
\* Schema contract.

REQUIRED ==
    << "ride_id", "timestamp", "pickup_zone", "dropoff_zone", "vehicle_type",
       "distance_km", "fare", "wait_time_minutes", "completed",
       "surge_multiplier" >>

RequiredSet == { REQUIRED[i] : i \in DOMAIN REQUIRED }

\* The columns whose cells the model carries.
Carried == { "ride_id", "timestamp", "pickup_zone", "vehicle_type", "fare", "completed" }

----------------------------------------------------------------------------
\* Exceptions.

NoError == [type |-> "none", msg |-> "", names |-> <<>>]

FileNotFoundError == [type |-> "FileNotFoundError", msg |-> "File not found", names |-> <<>>]

\* Raised by pd.read_csv itself when a parse_dates column is not in the header.
ParseDatesError ==
    [type |-> "ValueError", msg |-> "Missing column provided to 'parse_dates'",
     names |-> <<"timestamp">>]

SchemaError(missing) ==
    [type |-> "ValueError", msg |-> "Missing required columns", names |-> missing]

NotLoadedError ==
    [type |-> "ValueError", msg |-> "Data not loaded. Call load_data() first.", names |-> <<>>]

----------------------------------------------------------------------------
\* Floats as fractions.

Frac(n, d) == [num |-> n, den |-> d]
FNaN == Frac(0, 0)
FInf == Frac(1, 0)
FNegInf == Frac(-1, 0)

IsNaN(x) == x.den = 0 /\ x.num = 0
IsInf(x) == x.den = 0 /\ x.num # 0

\* numpy true division of two non-negative integer columns.
Div(n, d) ==
    IF d # 0 THEN Frac(n, d)
    ELSE IF n > 0 THEN FInf ELSE IF n < 0 THEN FNegInf ELSE FNaN

\* .replace([np.inf, -np.inf], np.nan)
ReplaceInf(x) == IF IsInf(x) THEN FNaN ELSE x

\* 1.0 - x
OneMinus(x) == IF x.den = 0 THEN x ELSE Frac(x.den - x.num, x.den)

----------------------------------------------------------------------------
\* Sums and orders.

RECURSIVE SumSeq(_)
SumSeq(s) == IF s = <<>> THEN 0 ELSE Head(s) + SumSeq(Tail(s))

\* Code point order of the text values the model uses (upper case first).
Alphabetical ==
    << "1970-01-01 09:00", "1970-01-02 08:00", "1970-01-05 07:00", "1970-01-05 09:00",
       "1970-02-01 23:00",
       "A", "B", "Friday", "Monday", "Saturday", "Sunday", "Thursday",
       "Tuesday", "Wednesday", "bad", "bike", "car", "r1", "r2" >>

Rank(s) == CHOOSE i \in DOMAIN Alphabetical : Alphabetical[i] = s

\* Sort keys are tuples of integers compared left to right.  A missing
\* value sorts after every value (na_position='last').
OrdStr(x) == IF x = NA THEN <<1, 0>> ELSE <<0, Rank(x)>>
OrdNum(x) == IF x = NaN THEN <<1, 0>> ELSE <<0, x>>

LexLess(a, b) ==
    \E i \in DOMAIN a : a[i] < b[i] /\ \A j \in 1..(i - 1) : a[j] = b[j]

\* The set S as a sequence in ascending order of ord[x] (ord is one-to-one).
SortedSeq(S, ord) ==
    [p \in 1..Cardinality(S) |->
        CHOOSE x \in S : Cardinality({y \in S : LexLess(ord[y], ord[x])}) = p - 1]

\* The sequence s sorted by ord[i], the sort key of s[i]; rows of equal key
\* keep their order.
StableSort(s, ord) ==
    LET Before(j, i) == LexLess(ord[j], ord[i]) \/ (ord[j] = ord[i] /\ j < i)
        Pos(i) == 1 + Cardinality({j \in DOMAIN s : Before(j, i)})
    IN  [p \in DOMAIN s |-> s[CHOOSE i \in DOMAIN s : Pos(i) = p]]

----------------------------------------------------------------------------
\* Loader and enricher.

\* Timestamp text to hours since 1970-01-01 00:00; anything else is NaT.
ParseTimestamp(cell) ==
    CASE cell = "1970-01-01 09:00" -> 9
      [] cell = "1970-01-02 08:00" -> 32
      [] cell = "1970-01-05 09:00" -> 105
      [] cell = "1970-01-05 07:00" -> 103
      [] cell = "1970-02-01 23:00" -> 767
      [] OTHER -> NaN

\* pd.to_numeric(errors='coerce')
ToNumeric(cell) ==
    CASE cell = "0" -> 0
      [] cell = "12" -> 12
      [] cell = "30" -> 30
      [] OTHER -> NaN

\* read_csv's inference for the completed column followed by astype(bool):
\* a column of True/False text is boolean; with empty cells it holds
\* True/False/NaN objects and NaN is truthy; with any other text it stays
\* text, and every cell (non-empty text, or NaN) is truthy.
AsTypeBool(rows, i) ==
    LET garbage == \E j \in DOMAIN rows : rows[j].completed \notin {"True", "False", NA}
    IN  IF garbage THEN TRUE ELSE rows[i].completed # "False"

\* read_csv(parse_dates=['timestamp']) converts the column only as a whole:
\* when every cell is a date-time or empty it becomes datetime64 (NaT for
\* the empty cells), otherwise it is left as the text read.  No source of
\* this model mixes unparseable and empty timestamp cells.
TimestampParses(rows) ==
    \A i \in DOMAIN rows :
        rows[i].timestamp = NA \/ ParseTimestamp(rows[i].timestamp) # NaN

DtDate(ts) == IF ts = NaN THEN NaN ELSE ts \div 24
DtHour(ts) == IF ts = NaN THEN NaN ELSE ts % 24

day_order == << "Monday", "Tuesday", "Wednesday", "Thursday", "Friday", "Saturday", "Sunday" >>

\* dt.day_name(); 1970-01-01 (day 0) is a Thursday.
DayName(date) == IF date = NaN THEN NA ELSE day_order[((date + 3) % 7) + 1]

\* dt.month for the dates of 1970 the model uses.
DtMonth(date) == IF date = NaN THEN NaN ELSE IF date < 31 THEN 1 ELSE IF date < 59 THEN 2 ELSE 3

Enrich(rows) ==
    [i \in DOMAIN rows |->
        LET r == rows[i]
            ts == ParseTimestamp(r.timestamp)
        IN  [ride_id |-> r.ride_id,
             timestamp |-> IF TimestampParses(rows) THEN <<"datetime64", ts>>
                           ELSE <<"object", r.timestamp>>,
             pickup_zone |-> r.pickup_zone,
             vehicle_type |-> r.vehicle_type,
             fare |-> ToNumeric(r.fare),
             completed |-> AsTypeBool(rows, i),
             date |-> DtDate(ts),
             hour |-> DtHour(ts),
             day_of_week |-> DayName(DtDate(ts)),
             month |-> DtMonth(DtDate(ts))]]

MissingColumns(src) == SelectSeq(REQUIRED, LAMBDA c : c \notin src.columns)

\* The outcome of load_data on the file src: the exception raised or the
\* frame built, and the steps taken in order.
LoadOutcome(src) ==
    IF ~src.exists
    THEN [status |-> "raise", error |-> FileNotFoundError, frame |-> None,
          trace |-> <<"read_csv">>]
    ELSE IF "timestamp" \notin src.columns
    THEN [status |-> "raise", error |-> ParseDatesError, frame |-> None,
          trace |-> <<"read_csv">>]
    ELSE IF MissingColumns(src) # <<>>
    THEN [status |-> "raise", error |-> SchemaError(MissingColumns(src)), frame |-> None,
          trace |-> <<"read_csv", "parse_dates", "validate">>]
    ELSE [status |-> "ok", error |-> NoError, frame |-> Frame(Enrich(src.rows)),
          trace |-> <<"read_csv", "parse_dates", "validate", "coerce", "derive", "assign">>]

----------------------------------------------------------------------------
\* Group-by machinery.

\* The rows of the frame d whose key is k, in frame order; keys[i] is the
\* key of row d[i].
GroupRows(d, keys, k) ==
    LET I == { i \in DOMAIN d : keys[i] = k }
    IN  [p \in 1..Cardinality(I) |->
            d[CHOOSE i \in I : Cardinality({j \in I : j < i}) = p - 1]]

\* The group keys of groupby(..., dropna=dropna): with dropna=False the rows
\* with a missing key form a group of their own, otherwise they are left out.
GroupKeys(keys, missing, dropna) ==
    { keys[i] : i \in DOMAIN keys } \ (IF dropna THEN missing ELSE {})

\* ('ride_id', 'count'): the non-missing ride identifiers of the group.
CountIds(g) == Len(SelectSeq(g, LAMBDA r : r.ride_id # NA))

\* ('completed', 'sum')
SumCompleted(g) == Len(SelectSeq(g, LAMBDA r : r.completed))

\* ('fare', 'sum'): missing fares are skipped.
SumFare(g) ==
    LET h == SelectSeq(g, LAMBDA r : r.fare # NaN)
    IN  SumSeq([i \in DOMAIN h |-> h[i].fare])

\* ('fare', 'mean'): NaN over a group without any fare.
MeanFare(g) == Div(SumFare(g), Len(SelectSeq(g, LAMBDA r : r.fare # NaN)))

\* s.mean() of the boolean column completed.
MeanCompleted(g) == Div(SumCompleted(g), Len(g))

----------------------------------------------------------------------------
\* Quality auditor.

\* df.duplicated(subset=['ride_id']): a row is a duplicate when an earlier
\* row has the same ride_id; missing identifiers equal each other.
\* duplicated() without subset: whole rows compared.
DuplicatedWholeRow(d, i) == \E j \in DOMAIN d : j < i /\ d[j] = d[i]

Duplicated(d, i) == \E j \in DOMAIN d : j < i /\ d[j].ride_id = d[i].ride_id

\* df['timestamp'].isna() of one row.
TimestampIsNa(r) ==
    IF r.timestamp[1] = "datetime64" THEN r.timestamp[2] = NaN ELSE r.timestamp[2] = NA

\* df['timestamp'].min() and .max(): missing cells are skipped; a datetime64
\* column is compared as time, a text column as text.
MinTimestamp(d) ==
    LET T == { d[i].timestamp[2] : i \in { j \in DOMAIN d : ~TimestampIsNa(d[j]) } }
    IN  IF T = {} THEN NaN
        ELSE IF \E i \in DOMAIN d : d[i].timestamp[1] = "object"
        THEN CHOOSE t \in T : \A u \in T : Rank(t) <= Rank(u)
        ELSE CHOOSE t \in T : \A u \in T : t <= u

MaxTimestamp(d) ==
    LET T == { d[i].timestamp[2] : i \in { j \in DOMAIN d : ~TimestampIsNa(d[j]) } }
    IN  IF T = {} THEN NaN
        ELSE IF \E i \in DOMAIN d : d[i].timestamp[1] = "object"
        THEN CHOOSE t \in T : \A u \in T : Rank(t) >= Rank(u)
        ELSE CHOOSE t \in T : \A u \in T : t >= u

QualityReport(d) ==
    [total_records |-> Len(d),
     duplicates |-> Cardinality({ i \in DOMAIN d : Duplicated(d, i) }),
     missing_values |->
        [ride_id |-> Len(SelectSeq(d, LAMBDA r : r.ride_id = NA)),
         timestamp |-> Len(SelectSeq(d, TimestampIsNa)),
         pickup_zone |-> Len(SelectSeq(d, LAMBDA r : r.pickup_zone = NA)),
         vehicle_type |-> Len(SelectSeq(d, LAMBDA r : r.vehicle_type = NA)),
         fare |-> Len(SelectSeq(d, LAMBDA r : r.fare = NaN)),
         completed |-> 0,
         date |-> Len(SelectSeq(d, LAMBDA r : r.date = NaN)),
         hour |-> Len(SelectSeq(d, LAMBDA r : r.hour = NaN)),
         day_of_week |-> Len(SelectSeq(d, LAMBDA r : r.day_of_week = NA)),
         month |-> Len(SelectSeq(d, LAMBDA r : r.month = NaN))],
     date_range |-> <<MinTimestamp(d), MaxTimestamp(d)>>,
     completion_rate |-> MeanCompleted(d)]

----------------------------------------------------------------------------
\* Aggregation transforms.

HourKey(r) == <<r.date, r.hour>>
ZoneKey(r) == r.pickup_zone
PeakKey(r) == <<r.day_of_week, r.hour>>
VehicleKey(r) == <<r.pickup_zone, r.vehicle_type>>
SurgeKey(r) == <<r.pickup_zone, r.hour>>

\* Whether a group key has a missing component, and its place in the order
\* in which groupby lists the groups.
NumNumMissing(k) == k[1] = NaN \/ k[2] = NaN
StrMissing(k) == k = NA
StrNumMissing(k) == k[1] = NA \/ k[2] = NaN
StrStrMissing(k) == k[1] = NA \/ k[2] = NA

NumNumOrd(k) == OrdNum(k[1]) \o OrdNum(k[2])
StrNumOrd(k) == OrdStr(k[1]) \o OrdNum(k[2])
StrStrOrd(k) == OrdStr(k[1]) \o OrdStr(k[2])

\* The dropna argument of each transform's groupby.
DropnaDefault == TRUE
\* A groupby whose dropna=False was left out.
DropnaOmitted == TRUE
HourlyDropna == FALSE
ZonalDropna == FALSE
PeakDropna == FALSE
VehicleDropna == FALSE
SurgeDropna == FALSE

CompletionRate(completed_rides, total_rides) == ReplaceInf(Div(completed_rides, total_rides))

HourlyTable(d) ==
    LET keys == [i \in DOMAIN d |-> HourKey(d[i])]
        K == GroupKeys(keys, { keys[i] : i \in { j \in DOMAIN d : NumNumMissing(keys[j]) } },
                       HourlyDropna)
        ks == SortedSeq(K, [k \in K |-> NumNumOrd(k)])
        out == [p \in DOMAIN ks |->
                  LET g == GroupRows(d, keys, ks[p])
                  IN  [date |-> ks[p][1], hour |-> ks[p][2],
                       total_rides |-> CountIds(g),
                       completed_rides |-> SumCompleted(g),
                       avg_fare |-> MeanFare(g),
                       total_revenue |-> SumFare(g),
                       completion_rate |-> CompletionRate(SumCompleted(g), CountIds(g)),
                       day_of_week |-> DayName(ks[p][1]),
                       month |-> DtMonth(ks[p][1])]]
    IN  StableSort(out, [p \in DOMAIN out |-> OrdNum(out[p].date) \o OrdNum(out[p].hour)])

ZonalTable(d) ==
    LET keys == [i \in DOMAIN d |-> ZoneKey(d[i])]
        K == GroupKeys(keys, { keys[i] : i \in { j \in DOMAIN d : StrMissing(keys[j]) } },
                       ZonalDropna)
        ks == SortedSeq(K, [k \in K |-> OrdStr(k)])
        out == [p \in DOMAIN ks |->
                  LET g == GroupRows(d, keys, ks[p])
                  IN  [pickup_zone |-> ks[p],
                       total_rides |-> CountIds(g),
                       completed_rides |-> SumCompleted(g),
                       avg_fare |-> MeanFare(g),
                       total_revenue |-> SumFare(g),
                       completion_rate |-> CompletionRate(SumCompleted(g), CountIds(g))]]
        grand == SumSeq([p \in DOMAIN out |-> out[p].total_rides])
        shared == [p \in DOMAIN out |->
                     [pickup_zone |-> out[p].pickup_zone,
                      total_rides |-> out[p].total_rides,
                      completed_rides |-> out[p].completed_rides,
                      avg_fare |-> out[p].avg_fare,
                      total_revenue |-> out[p].total_revenue,
                      completion_rate |-> out[p].completion_rate,
                      ride_share |-> Div(out[p].total_rides, grand)]]
    \* sort_values("total_rides", ascending=False); groups of equal
    \* total_rides are taken to keep the order groupby gave them.
    IN  StableSort(shared, [p \in DOMAIN shared |-> <<0 - shared[p].total_rides>>])

\* pd.Categorical(..., categories=day_order): the code of a weekday name is
\* its place in day_order, and of anything else -1 (a missing value).
CategoryCode(day) ==
    IF \E c \in DOMAIN day_order : day_order[c] = day
    THEN CHOOSE c \in DOMAIN day_order : day_order[c] = day
    ELSE NaN

\* The sort without the Categorical conversion: weekday names as text.
PeakOrdLexical(r) == OrdStr(r.day_of_week) \o OrdNum(r.hour)

\* sort_values(['day_of_week', 'hour']) on the categorical weekday.
PeakOrd(r) == OrdNum(CategoryCode(r.day_of_week)) \o OrdNum(r.hour)

PeakTable(d) ==
    LET keys == [i \in DOMAIN d |-> PeakKey(d[i])]
        K == GroupKeys(keys, { keys[i] : i \in { j \in DOMAIN d : StrNumMissing(keys[j]) } },
                       PeakDropna)
        ks == SortedSeq(K, [k \in K |-> StrNumOrd(k)])
        out == [p \in DOMAIN ks |->
                  LET g == GroupRows(d, keys, ks[p])
                  IN  [day_of_week |-> ks[p][1], hour |-> ks[p][2],
                       ride_count |-> CountIds(g)]]
        grand == SumSeq([p \in DOMAIN out |-> out[p].ride_count])
        shared == [p \in DOMAIN out |->
                     [day_of_week |-> IF CategoryCode(out[p].day_of_week) = NaN
                                      THEN NA ELSE out[p].day_of_week,
                      hour |-> out[p].hour,
                      ride_count |-> out[p].ride_count,
                      share_of_week |-> Div(out[p].ride_count, grand)]]
    IN  StableSort(shared, [p \in DOMAIN shared |-> PeakOrd(shared[p])])

\* out.groupby('pickup_zone')['total_rides'].transform(lambda s: s / s.sum()):
\* this inner groupby keeps the default dropna=True, so the rows whose
\* pickup_zone is missing belong to no group and get NaN.
ZoneVehicleShare(out, p) ==
    LET zones == [q \in DOMAIN out |-> ZoneKey(out[q])]
        K == GroupKeys(zones, { zones[q] : q \in { j \in DOMAIN out : StrMissing(zones[j]) } },
                       DropnaDefault)
    IN  IF zones[p] \notin K THEN FNaN
        ELSE LET same == GroupRows(out, zones, zones[p])
             IN  Div(out[p].total_rides, SumSeq([q \in DOMAIN same |-> same[q].total_rides]))

\* sort_values(['pickup_zone', 'total_rides'], ascending=[True, False])
VehicleOrd(r) == OrdStr(r.pickup_zone) \o <<0 - r.total_rides>>

VehicleTable(d) ==
    LET keys == [i \in DOMAIN d |-> VehicleKey(d[i])]
        K == GroupKeys(keys, { keys[i] : i \in { j \in DOMAIN d : StrStrMissing(keys[j]) } },
                       VehicleDropna)
        ks == SortedSeq(K, [k \in K |-> StrStrOrd(k)])
        out == [p \in DOMAIN ks |->
                  LET g == GroupRows(d, keys, ks[p])
                  IN  [pickup_zone |-> ks[p][1], vehicle_type |-> ks[p][2],
                       total_rides |-> CountIds(g),
                       completed_rides |-> SumCompleted(g),
                       avg_fare |-> MeanFare(g),
                       total_revenue |-> SumFare(g),
                       completion_rate |-> CompletionRate(SumCompleted(g), CountIds(g))]]
        shared == [p \in DOMAIN out |->
                     [pickup_zone |-> out[p].pickup_zone,
                      vehicle_type |-> out[p].vehicle_type,
                      total_rides |-> out[p].total_rides,
                      completed_rides |-> out[p].completed_rides,
                      avg_fare |-> out[p].avg_fare,
                      total_revenue |-> out[p].total_revenue,
                      completion_rate |-> out[p].completion_rate,
                      zone_vehicle_share |-> ZoneVehicleShare(out, p)]]
    IN  StableSort(shared, [p \in DOMAIN shared |-> VehicleOrd(shared[p])])

SurgeTable(d) ==
    LET keys == [i \in DOMAIN d |-> SurgeKey(d[i])]
        K == GroupKeys(keys, { keys[i] : i \in { j \in DOMAIN d : StrNumMissing(keys[j]) } },
                       SurgeDropna)
        ks == SortedSeq(K, [k \in K |-> StrNumOrd(k)])
        out == [p \in DOMAIN ks |->
                  LET g == GroupRows(d, keys, ks[p])
                  IN  [pickup_zone |-> ks[p][1], hour |-> ks[p][2],
                       ride_count |-> CountIds(g),
                       cancel_rate |-> OneMinus(MeanCompleted(g))]]
    IN  StableSort(out, [p \in DOMAIN out |-> OrdStr(out[p].pickup_zone) \o OrdNum(out[p].hour)])

----------------------------------------------------------------------------
\* Session.

NoValue == <<>>

Result(op, status, error, value, trace) ==
    [op |-> op, status |-> status, error |-> error, value |-> value, trace |-> trace]

\* if self.df is None
IsNone(d) == d = None

\* load_data without line 66: the frame is returned but never kept.
load_data_drops_frame ==
    LET o == LoadOutcome(source)
    IN  /\ ret' = Result("load_data", o.status, o.error,
                         IF o.status = "ok" THEN o.frame ELSE NoValue, o.trace)
        /\ UNCHANGED <<source, df, saved>>

load_data ==
    LET o == LoadOutcome(source)
    IN  /\ df' = IF o.status = "ok" THEN o.frame ELSE df
        /\ ret' = Result("load_data", o.status, o.error,
                         IF o.status = "ok" THEN o.frame ELSE NoValue, o.trace)
        /\ UNCHANGED <<source, saved>>

data_quality_check ==
    /\ ret' = IF IsNone(df)
              THEN Result("data_quality_check", "raise", NotLoadedError, NoValue, <<>>)
              ELSE Result("data_quality_check", "ok", NoError, QualityReport(df.rows), <<>>)
    /\ UNCHANGED <<source, df, saved>>

aggregate_by_hour ==
    /\ ret' = IF IsNone(df)
              THEN Result("aggregate_by_hour", "raise", NotLoadedError, NoValue, <<>>)
              ELSE Result("aggregate_by_hour", "ok", NoError, HourlyTable(df.rows), <<>>)
    /\ UNCHANGED <<source, df, saved>>

aggregate_by_zone ==
    /\ ret' = IF IsNone(df)
              THEN Result("aggregate_by_zone", "raise", NotLoadedError, NoValue, <<>>)
              ELSE Result("aggregate_by_zone", "ok", NoError, ZonalTable(df.rows), <<>>)
    /\ UNCHANGED <<source, df, saved>>

\* peak_hours_analysis sorting self.df itself into calendar order.
peak_hours_analysis_inplace ==
    /\ ret' = IF IsNone(df)
              THEN Result("peak_hours_analysis", "raise", NotLoadedError, NoValue, <<>>)
              ELSE Result("peak_hours_analysis", "ok", NoError, PeakTable(df.rows), <<>>)
    /\ df' = IF IsNone(df) THEN df
             ELSE Frame(StableSort(df.rows, [i \in DOMAIN df.rows |-> PeakOrd(df.rows[i])]))
    /\ UNCHANGED <<source, saved>>

peak_hours_analysis ==
    /\ ret' = IF IsNone(df)
              THEN Result("peak_hours_analysis", "raise", NotLoadedError, NoValue, <<>>)
              ELSE Result("peak_hours_analysis", "ok", NoError, PeakTable(df.rows), <<>>)
    /\ UNCHANGED <<source, df, saved>>

vehicle_type_analysis ==
    /\ ret' = IF IsNone(df)
              THEN Result("vehicle_type_analysis", "raise", NotLoadedError, NoValue, <<>>)
              ELSE Result("vehicle_type_analysis", "ok", NoError, VehicleTable(df.rows), <<>>)
    /\ UNCHANGED <<source, df, saved>>

surge_analysis ==
    /\ ret' = IF IsNone(df)
              THEN Result("surge_analysis", "raise", NotLoadedError, NoValue, <<>>)
              ELSE Result("surge_analysis", "ok", NoError, SurgeTable(df.rows), <<>>)
    /\ UNCHANGED <<source, df, saved>>

Transforms ==
    << "aggregate_by_hour", "aggregate_by_zone", "peak_hours_analysis",
       "vehicle_type_analysis", "surge_analysis" >>

ReadOps == { Transforms[i] : i \in DOMAIN Transforms } \cup {"data_quality_check"}

\* The mapping process_and_save returns: artifact name to file.
Outputs ==
    [hourly_metrics |-> "hourly_metrics.csv",
     geographic_metrics |-> "geographic_metrics.csv",
     peak_hours |-> "peak_hours.csv",
     vehicle_type |-> "vehicle_type.csv",
     surge_analysis |-> "surge_analysis.csv"]

\* The files to_csv writes into the output directory.
Written(d) ==
    [hourly_metrics |-> HourlyTable(d),
     geographic_metrics |-> ZonalTable(d),
     peak_hours |-> PeakTable(d),
     vehicle_type |-> VehicleTable(d),
     surge_analysis |-> SurgeTable(d)]

\* process_and_save without its implicit load, and with an unconditional one.
NeverLoads(d) == FALSE
AlwaysLoads(d) == TRUE

\* Line 195: whether process_and_save calls load_data first.
NeedsLoad(d) == IsNone(d)

process_and_save ==
    LET loads == NeedsLoad(df)
        o == LoadOutcome(source)
        d == IF loads /\ o.status = "ok" THEN o.frame ELSE df
        called == IF loads THEN <<"load_data">> \o o.trace ELSE <<>>
    IN  IF loads /\ o.status # "ok"
        THEN /\ ret' = Result("process_and_save", "raise", o.error, NoValue, called)
             /\ UNCHANGED <<source, df, saved>>
        ELSE IF IsNone(d)
        THEN /\ ret' = Result("process_and_save", "raise", NotLoadedError, NoValue,
                              Append(called, "aggregate_by_hour"))
             /\ UNCHANGED <<source, df, saved>>
        ELSE /\ df' = d
             /\ ret' = Result("process_and_save", "ok", NoError, Outputs, called \o Transforms)
             /\ saved' = Written(d.rows)
             /\ UNCHANGED source

----------------------------------------------------------------------------
\* Source files.

NotFound == [exists |-> FALSE, columns |-> {}, rows |-> <<>>]

SeqsUpTo(S, n) == UNION { [1..k -> S] : k \in 0..n }

Row(id, ts, zone, vt, fare, done) ==
    [ride_id |-> id, timestamp |-> ts, pickup_zone |-> zone, vehicle_type |-> vt,
     fare |-> fare, completed |-> done]

\* A file with the full header.
Complete(rows) == [exists |-> TRUE, columns |-> RequiredSet, rows |-> rows]

\* A file whose header lacks some columns: the rows have no cell there.
Lacking(cols, rows) ==
    [exists |-> TRUE, columns |-> cols,
     rows |-> [i \in DOMAIN rows |->
                 [c \in Carried |-> IF c \in cols THEN rows[i][c] ELSE NA]]]

SessionRows ==
    { Row("r1", ts, "A", "car", f, "True") :
        ts \in {"1970-01-01 09:00", "bad"}, f \in {"12", "abc"} }

SessionSources ==
    {NotFound}
    \cup { Complete(rows) : rows \in SeqsUpTo(SessionRows, MaxRows) }
    \cup { Lacking(cols, <<Row("r1", "1970-01-01 09:00", "A", "car", "12", "True")>>) :
             cols \in (SUBSET RequiredSet) \ {RequiredSet} }

\* Rows that differ in ride identifier and in the completed cell.
RateRows ==
    { Row(id, "1970-01-01 09:00", "A", "car", "12", done) :
        id \in {"r1", NA}, done \in {"True", "False", NA, "yes"} }

\* Rows that differ in ride identifier, pickup zone and timestamp.
ShareRows ==
    { Row(id, at[1], at[2], "car", "12", "True") :
        id \in {"r1", NA},
        at \in { <<"1970-01-05 09:00", "A">>, <<"bad", "A">>, <<"1970-01-05 09:00", NA>> } }

\* Rows that differ in weekday and hour.
PeakRows ==
    { Row("r1", ts, "A", "car", "12", "True") :
        ts \in {"1970-01-01 09:00", "1970-01-02 08:00", "1970-01-05 09:00",
                "1970-01-05 07:00", "1970-02-01 23:00", "bad"} }

\* Rows that differ in ride identifier and in another field.
DupRows ==
    { Row(id, "1970-01-01 09:00", zone, "car", "12", "True") :
        id \in {"r1", "r2", NA}, zone \in {"A", "B"} }

\* Rows that differ in ride identifier, pickup zone and vehicle type.
VehicleRows ==
    { Row(id, "1970-01-01 09:00", zone, vt, "12", "True") :
        id \in {"r1", NA}, zone \in {"A", NA}, vt \in {"car", "bike"} }

InitSession ==
    /\ df = None
    /\ ret = Result("__init__", "ok", NoError, NoValue, <<>>)
    /\ saved = <<>>

Init == InitSession /\ source \in SessionSources
InitRates == InitSession /\ source \in { Complete(rows) : rows \in SeqsUpTo(RateRows, MaxRows) }
InitShares == InitSession /\ source \in { Complete(rows) : rows \in SeqsUpTo(ShareRows, MaxRows) }
InitPeak == InitSession /\ source \in { Complete(rows) : rows \in SeqsUpTo(PeakRows, MaxRows) }
InitDup == InitSession /\ source \in { Complete(rows) : rows \in SeqsUpTo(DupRows, MaxRows) }
InitVehicle == InitSession /\ source \in { Complete(rows) : rows \in SeqsUpTo(VehicleRows, MaxRows) }

Next ==
    \/ load_data
    \/ data_quality_check
    \/ aggregate_by_hour
    \/ aggregate_by_zone
    \/ peak_hours_analysis
    \/ vehicle_type_analysis
    \/ surge_analysis
    \/ process_and_save

Spec == Init /\ [][Next]_vars
SpecRates == InitRates /\ [][Next]_vars
SpecShares == InitShares /\ [][Next]_vars
SpecPeak == InitPeak /\ [][Next]_vars
SpecDup == InitDup /\ [][Next]_vars
SpecVehicle == InitVehicle /\ [][Next]_vars

----------------------------------------------------------------------------
\* Properties.

InTrace(e, t) == \E i \in DOMAIN t : t[i] = e
Occurrences(e, t) == Cardinality({ i \in DOMAIN t : t[i] = e })

\* Whether the call that returned r executed self.df = df (line 66).
Assigned(r) == InTrace("assign", r.trace)

\* A rate that is missing or lies in [0, 1].
InUnitOrMissing(x) == IsNaN(x) \/ (x.den > 0 /\ 0 <= x.num /\ x.num <= x.den)

\* The number of records of the loaded dataset that carry a ride identifier.
RidesCounted == Cardinality({ i \in DOMAIN df.rows : df.rows[i].ride_id # NA })

ArtifactNames ==
    {"hourly_metrics", "geographic_metrics", "peak_hours", "vehicle_type", "surge_analysis"}

\* C1: data_quality_check and the five transforms raise the not-loaded error
\* as long as no load has succeeded (the dataset is absent until a load
\* succeeds and is never absent again), and return a result once a load has
\* succeeded.
NotLoadedUntilLoadSucceeds ==
    [][ /\ (ret'.op \in ReadOps =>
              IF df = None
              THEN ret'.status = "raise" /\ ret'.error = NotLoadedError
              ELSE ret'.status = "ok" /\ ret'.error = NoError)
        /\ ((ret'.op = "load_data" /\ ret'.status = "ok") => df' # None)
        /\ ((df = None /\ df' # None) =>
              (ret'.op \in {"load_data", "process_and_save"} /\ ret'.status = "ok"))
        /\ (df # None => df' # None) ]_vars

ReadSucceedsAfterLoad ==
    ret.op = "surge_analysis" /\ ret.status = "ok" /\ df # None

\* C2 (as claimed): load_data on a file whose header lacks required columns
\* raises the schema validation error naming every absent column, before any
\* coercion or derivation.
MissingColumnsAllNamed ==
    (ret.op = "load_data" /\ source.exists /\ MissingColumns(source) # <<>>) =>
        /\ ret.status = "raise"
        /\ ret.error = SchemaError(MissingColumns(source))
        /\ ~InTrace("coerce", ret.trace)
        /\ ~InTrace("derive", ret.trace)

\* C3: process_and_save calls load_data exactly once, first, when the dataset
\* is absent and not at all when it is present; unless that implicit load
\* raises (its error is then propagated), it runs the five transforms in
\* order and returns, and writes, exactly the five named artifacts.
ExportLoadsOnceThenRunsAll ==
    [][ ret'.op = "process_and_save" =>
          /\ IF df = None
             THEN Head(ret'.trace) = "load_data" /\ Occurrences("load_data", ret'.trace) = 1
             ELSE ~InTrace("load_data", ret'.trace) /\ ~Assigned(ret')
          /\ IF df = None /\ LoadOutcome(source).status = "raise"
             THEN /\ ret'.status = "raise"
                  /\ ret'.error = LoadOutcome(source).error
                  /\ \A i \in DOMAIN Transforms : ~InTrace(Transforms[i], ret'.trace)
             ELSE /\ ret'.status = "ok"
                  /\ Len(ret'.trace) >= Len(Transforms)
                  /\ SubSeq(ret'.trace, Len(ret'.trace) - Len(Transforms) + 1, Len(ret'.trace))
                       = Transforms
                  /\ \A i \in DOMAIN Transforms : Occurrences(Transforms[i], ret'.trace) = 1
                  /\ DOMAIN ret'.value = ArtifactNames
                  /\ DOMAIN saved' = ArtifactNames ]_vars

ExportLoadedImplicitly ==
    /\ ret.op = "process_and_save" /\ ret.status = "ok"
    /\ Head(ret.trace) = "load_data"
    /\ DOMAIN ret.value = ArtifactNames

\* C4 (as claimed): every completion_rate, every cancel_rate and the quality
\* report's completion_rate is missing or within [0, 1].
RatesWithinUnit ==
    ret.status = "ok" =>
        /\ (ret.op \in {"aggregate_by_hour", "aggregate_by_zone", "vehicle_type_analysis"} =>
              \A p \in DOMAIN ret.value : InUnitOrMissing(ret.value[p].completion_rate))
        /\ (ret.op = "surge_analysis" =>
              \A p \in DOMAIN ret.value : InUnitOrMissing(ret.value[p].cancel_rate))
        /\ (ret.op = "data_quality_check" => InUnitOrMissing(ret.value.completion_rate))

\* C5: when the dataset counts at least one ride, the ride_share values of
\* the Zonal table and the share_of_week values of the Peak-hours table are
\* fractions of one common denominator, the number of rides counted in the
\* whole dataset (missing-key groups included), and their numerators sum to
\* that denominator: the shares sum to 1.
SharesSumToOne ==
    (ret.status = "ok" /\ RidesCounted # 0) =>
        /\ (ret.op = "aggregate_by_zone" =>
              /\ \A p \in DOMAIN ret.value :
                    /\ ret.value[p].ride_share.den = RidesCounted
                    /\ ret.value[p].ride_share.num = ret.value[p].total_rides
              /\ SumSeq([p \in DOMAIN ret.value |-> ret.value[p].ride_share.num]) = RidesCounted)
        /\ (ret.op = "peak_hours_analysis" =>
              /\ \A p \in DOMAIN ret.value :
                    /\ ret.value[p].share_of_week.den = RidesCounted
                    /\ ret.value[p].share_of_week.num = ret.value[p].ride_count
              /\ SumSeq([p \in DOMAIN ret.value |-> ret.value[p].share_of_week.num]) = RidesCounted)

SharesWithMissingZoneGroup ==
    /\ ret.op = "aggregate_by_zone" /\ ret.status = "ok"
    /\ Len(ret.value) = 2
    /\ \E p \in DOMAIN ret.value : ret.value[p].pickup_zone = NA /\ ret.value[p].total_rides > 0
    /\ \E p \in DOMAIN ret.value : ret.value[p].pickup_zone = "A" /\ ret.value[p].total_rides > 0

\* The place of a weekday name in the calendar week, Monday first.
CalendarPlace(day) == CHOOSE c \in DOMAIN day_order : day_order[c] = day

\* C6: the Peak-hours rows that carry a weekday are in the order Monday ..
\* Sunday and, within one weekday, in ascending hour; and the table has
\* exactly one row for every (day_of_week, hour) group of the dataset.
PeakRowsInCalendarOrder ==
    (ret.op = "peak_hours_analysis" /\ ret.status = "ok") =>
        LET t == ret.value IN
        /\ \A i, j \in DOMAIN t :
              (i < j /\ t[i].day_of_week # NA /\ t[j].day_of_week # NA) =>
                 \/ CalendarPlace(t[i].day_of_week) < CalendarPlace(t[j].day_of_week)
                 \/ /\ t[i].day_of_week = t[j].day_of_week
                    /\ t[i].hour < t[j].hour
        /\ { <<t[p].day_of_week, t[p].hour>> : p \in DOMAIN t }
             = { <<df.rows[i].day_of_week, df.rows[i].hour>> : i \in DOMAIN df.rows }
        /\ Len(t) = Cardinality({ <<df.rows[i].day_of_week, df.rows[i].hour>> : i \in DOMAIN df.rows })

\* Friday is seen first in the source and sorts first as text, yet follows
\* Monday and Thursday in the table.
PeakReordered ==
    /\ ret.op = "peak_hours_analysis" /\ ret.status = "ok"
    /\ Len(df.rows) = 3 /\ df.rows[1].day_of_week = "Friday"
    /\ Len(ret.value) = 3
    /\ ret.value[1].day_of_week = "Monday"
    /\ ret.value[2].day_of_week = "Thursday"
    /\ ret.value[3].day_of_week = "Friday"

\* C7 (as claimed): once the dataset reference is set, no call assigns it
\* again.
AssignedExactlyOnce ==
    [][ df # None => ~Assigned(ret') ]_vars

\* C7 (amended): the dataset reference is absent at creation, is set only by
\* a load that succeeds and holds what that load built from the source, is
\* never absent again, and process_and_save assigns it only while it is
\* absent; load_data assigns it on every successful call.
AssignedOnlyByLoads ==
    /\ df = None
    /\ [][ /\ (df # None => df' # None)
           /\ (df' # df => (Assigned(ret') /\ df' = LoadOutcome(source).frame))
           /\ ((ret'.op = "process_and_save" /\ df # None) => ~Assigned(ret'))
           /\ ((ret'.op = "load_data" /\ ret'.status = "ok") =>
                 (Assigned(ret') /\ df' = LoadOutcome(source).frame)) ]_vars

ReloadedWhileLoaded ==
    /\ ret.op = "load_data" /\ ret.status = "ok" /\ Assigned(ret)
    /\ saved # <<>>

\* What a read operation returns on the rows of a frame.
ResultOf(op, rows) ==
    CASE op = "data_quality_check" -> QualityReport(rows)
      [] op = "aggregate_by_hour" -> HourlyTable(rows)
      [] op = "aggregate_by_zone" -> ZonalTable(rows)
      [] op = "peak_hours_analysis" -> PeakTable(rows)
      [] op = "vehicle_type_analysis" -> VehicleTable(rows)
      [] op = "surge_analysis" -> SurgeTable(rows)

\* C8: data_quality_check and the five transforms leave the dataset as it
\* is, and whatever was called before, each returns what it returns on the
\* dataset as the last load built it from the source.
ReadsLeaveDatasetUnchanged ==
    /\ [][ ret'.op \in ReadOps => df' = df ]_vars
    /\ [](( ret.op \in ReadOps /\ ret.status = "ok") =>
             ret.value = ResultOf(ret.op, Enrich(source.rows)))

PeakReadOfUnsortedDataset ==
    /\ ret.op = "peak_hours_analysis" /\ ret.status = "ok"
    /\ Len(df.rows) >= 2
    /\ df.rows[1].day_of_week = NA /\ df.rows[2].day_of_week # NA

\* C9: the quality report's duplicates is the number of records minus the
\* number of distinct ride identifiers (a missing identifier counting as one
\* value), and total_records is the number of records.
DuplicatesCountExtraOccurrences ==
    (ret.op = "data_quality_check" /\ ret.status = "ok") =>
        /\ ret.value.total_records = Len(source.rows)
        /\ ret.value.duplicates =
             Len(source.rows) - Cardinality({ source.rows[i].ride_id : i \in DOMAIN source.rows })

DuplicateWithOtherFieldDiffering ==
    /\ ret.op = "data_quality_check" /\ ret.status = "ok"
    /\ Len(df.rows) = 3
    /\ df.rows[1].ride_id = "r1" /\ df.rows[2].ride_id = "r2" /\ df.rows[3].ride_id = "r1"
    /\ df.rows[1].pickup_zone # df.rows[3].pickup_zone
    /\ ret.value.duplicates = 1

\* C10 (as claimed): every zone_vehicle_share, the rows of a missing pickup
\* zone included, is the row's total_rides divided by the sum of total_rides
\* over the rows of the same pickup zone.
ZoneVehicleShareOfEveryRow ==
    (ret.op = "vehicle_type_analysis" /\ ret.status = "ok") =>
        \A p \in DOMAIN ret.value :
            LET same == SelectSeq(ret.value, LAMBDA r : r.pickup_zone = ret.value[p].pickup_zone)
                zone_total == SumSeq([q \in DOMAIN same |-> same[q].total_rides])
            IN  ret.value[p].zone_vehicle_share = Div(ret.value[p].total_rides, zone_total)
====
